---- MODULE Spec2Model ----
(***************************************************************************)
(* Incremental scraper reconciliation engine of the NATO opportunities     *)
(* site: discovery, reconciliation by opportunity_code, processing of new  *)
(* / amended / unchanged records and the auto-deactivation sweep, as laid  *)
(* out in SETUP.md ("ACT IFIB Updater Implementation Plan").               *)
(***************************************************************************)
EXTENDS Integers, Sequences, FiniteSets, TLC

\* ------------------------------------------------------------------ bounds
MaxLinks == 2      \* longest website listing returned by discovery
MaxTime == 1       \* the clock runs over 0..MaxTime
MaxRuns == 2       \* number of scraper runs explored
MaxJobs == 2       \* number of job processes started, by cron or by hand

\* ------------------------------------------------------------ value spaces
\* nullable DateTime columns: the null value
NULL == -1

\* opportunity codes of the scraped scope (ACT / IFIB)
Codes == {"c1", "c2"}

\* a record of another scraper's scope already in the table
OtherCode == "n1"

\* a URL is a sequence of path tokens; "/" is the separator
Url(code, amended, slash) ==
    <<"/", code>> \o (IF amended THEN <<"-amendment-1">> ELSE <<>>)
                  \o (IF slash THEN <<"/">> ELSE <<>>)

\* a URL whose last segment carries no opportunity code
BadUrl == <<"/", "contracting", "/">>

UrlPool ==
    { Url("c1", FALSE, TRUE), Url("c1", FALSE, FALSE), Url("c1", TRUE, TRUE),
      Url("c2", FALSE, TRUE), BadUrl }

\* closing dates the extraction can produce: none, or a date up to one step after
\* the last reading of the clock
ClosingDates == {NULL} \cup 0..(MaxTime + 1)

\* the field sets an extraction can return
FieldSets == [bid_closing_date_parsed : ClosingDates]

RECURSIVE SeqsUpTo(_, _)
SeqsUpTo(S, n) ==
    IF n = 0 THEN {<<>>}
    ELSE LET shorter == SeqsUpTo(S, n - 1)
         IN  shorter \cup { Append(s, x) : s \in {t \in shorter : Len(t) = n - 1}, x \in S }

\* the listings discovery can return
Snapshots == SeqsUpTo([url : UrlPool], MaxLinks)

\* ------------------------------------------------- backend/utils/url_comparison
RECURSIVE StripTrailingSlashes(_)
StripTrailingSlashes(url) ==
    IF url # <<>> /\ url[Len(url)] = "/"
    THEN StripTrailingSlashes(SubSeq(url, 1, Len(url) - 1))
    ELSE url

\* last segment of the URL (after the last "/"), trailing slashes handled
extract_url_ending(url) ==
    LET s == StripTrailingSlashes(url)
        slashes == {i \in 1..Len(s) : s[i] = "/"}
        start == IF slashes = {} THEN 0
                 ELSE CHOOSE i \in slashes : \A j \in slashes : j <= i
    IN  SubSeq(s, start + 1, Len(s))

\* the whole URLs compared instead of their endings
urls_differ_whole(url1, url2) == url1 # url2

urls_differ_by_ending(url1, url2) ==
    extract_url_ending(url1) # extract_url_ending(url2)

\* ------------------------------------------------------- the code extractor
NoCode == "ExtractionError"

\* the opportunity code embedded in the URL's last segment
extract_code(url) ==
    LET ending == extract_url_ending(url)
    IN  IF ending # <<>> /\ ending[1] \in Codes \cup {OtherCode}
        THEN ending[1] ELSE NoCode

\* --------------------------------------------------------------- the table
\* amendment tracking columns with has_amendments defaulting to true
AmendmentDefaultsFlagged ==
    [amendment_count |-> 0, has_amendments |-> TRUE, last_amendment_at |-> NULL]

\* amendment tracking columns and their defaults
AmendmentDefaults ==
    [amendment_count |-> 0, has_amendments |-> FALSE, last_amendment_at |-> NULL]

\* the row created for a new opportunity
NewRecord(link, fields, t) ==
    [opportunity_code |-> extract_code(link.url),
     opportunity_type |-> "IFIB",
     url |-> link.url,
     bid_closing_date_parsed |-> fields.bid_closing_date_parsed,
     is_active |-> TRUE,
     amendment_count |-> AmendmentDefaults.amendment_count,
     has_amendments |-> AmendmentDefaults.has_amendments,
     last_amendment_at |-> AmendmentDefaults.last_amendment_at,
     update_count |-> 0,
     last_changed_fields |-> <<>>,
     last_checked_at |-> t]

\* the row of the other scope present from the start
OtherRecord ==
    [opportunity_code |-> OtherCode,
     opportunity_type |-> "NOI",
     url |-> <<"/", OtherCode, "/">>,
     bid_closing_date_parsed |-> 0,
     is_active |-> TRUE,
     amendment_count |-> 0,
     has_amendments |-> FALSE,
     last_amendment_at |-> NULL,
     update_count |-> 0,
     last_changed_fields |-> <<>>,
     last_checked_at |-> 0]

\* rows of table d carrying the code
RowsOf(d, code) == {i \in DOMAIN d : d[i].opportunity_code = code}

RowOf(d, code) == CHOOSE i \in RowsOf(d, code) : \A j \in RowsOf(d, code) : j <= i

\* ------------------------------------------------ _reconcile_opportunities
\* keys of the website_codes dict, in insertion order
RECURSIVE WebsiteKeys(_)
WebsiteKeys(website_links) ==
    IF website_links = <<>> THEN <<>>
    ELSE LET front == WebsiteKeys(SubSeq(website_links, 1, Len(website_links) - 1))
             code == extract_code(website_links[Len(website_links)].url)
         IN  IF \E i \in DOMAIN front : front[i] = code THEN front
             ELSE Append(front, code)

\* website_codes keeping the first link of a repeated code
website_codes_first(website_links) ==
    LET keys == WebsiteKeys(website_links)
        at(code) == {i \in DOMAIN website_links :
                        extract_code(website_links[i].url) = code}
        first(code) == CHOOSE i \in at(code) : \A j \in at(code) : i <= j
    IN  [k \in DOMAIN keys |-> [code |-> keys[k], link |-> website_links[first(keys[k])]]]

\* website_codes built as a list of pairs: a repeated code is kept twice
website_codes_list(website_links) ==
    [k \in DOMAIN website_links |->
        [code |-> extract_code(website_links[k].url), link |-> website_links[k]]]

\* {extract_code(link['url']): link for link in website_links}
website_codes(website_links) ==
    LET keys == WebsiteKeys(website_links)
        at(code) == {i \in DOMAIN website_links :
                        extract_code(website_links[i].url) = code}
        last(code) == CHOOSE i \in at(code) : \A j \in at(code) : j <= i
    IN  [k \in DOMAIN keys |-> [code |-> keys[k], link |-> website_links[last(keys[k])]]]

\* the rows of this scraper's nato_body and opportunity_type
InScope(opp) == opp.opportunity_type = "IFIB"

existing(d) == SelectSeq(d, InScope)

\* the reconciliation of the old save logic, which looked a link up by its url
_reconcile_opportunities_by_url(website_links, d) ==
    LET wc == website_codes(website_links)
        ex == existing(d)
        known(url) == \E i \in DOMAIN ex : ex[i].url = url
        existing_by_code(code) == ex[RowOf(ex, code)]
        IsNew(e) == ~known(e.link.url)
        IsUnchanged(e) == known(e.link.url)
        IsRemoved(opp) == \A k \in DOMAIN wc : wc[k].code # opp.opportunity_code
        newE == SelectSeq(wc, IsNew)
        sameE == SelectSeq(wc, IsUnchanged)
    IN  [new |-> [k \in DOMAIN newE |-> newE[k].link],
         amendments |-> <<>>,
         unchanged |-> [k \in DOMAIN sameE |-> existing_by_code(sameE[k].code)],
         removed |-> SelectSeq(ex, IsRemoved)]

_reconcile_opportunities(website_links, d) ==
    LET wc == website_codes(website_links)
        ex == existing(d)
        known(code) == \E i \in DOMAIN ex : ex[i].opportunity_code = code
        existing_by_code(code) == ex[RowOf(ex, code)]
        IsNew(e) == ~known(e.code)
        IsAmendment(e) ==
            known(e.code) /\ urls_differ_by_ending(e.link.url, existing_by_code(e.code).url)
        IsUnchanged(e) ==
            known(e.code) /\ ~urls_differ_by_ending(e.link.url, existing_by_code(e.code).url)
        IsRemoved(opp) == \A k \in DOMAIN wc : wc[k].code # opp.opportunity_code
        newE == SelectSeq(wc, IsNew)
        amdE == SelectSeq(wc, IsAmendment)
        sameE == SelectSeq(wc, IsUnchanged)
    IN  [new |-> [k \in DOMAIN newE |-> newE[k].link],
         amendments |-> [k \in DOMAIN amdE |->
                            [link |-> amdE[k].link, opp |-> existing_by_code(amdE[k].code)]],
         unchanged |-> [k \in DOMAIN sameE |-> existing_by_code(sameE[k].code)],
         removed |-> SelectSeq(ex, IsRemoved)]

NoReconciliation == [new |-> <<>>, amendments |-> <<>>, unchanged |-> <<>>, removed |-> <<>>]

\* --------------------------------------------------- opportunity save logic
\* names of the extracted fields whose value differs from the stored one
ChangedContent(opp, fields) ==
    IF opp.bid_closing_date_parsed # fields.bid_closing_date_parsed
    THEN <<"bid_closing_date_parsed">> ELSE <<>>

\* an update that adds the changed fields to those recorded before
UpdateFieldsAccumulating(opp, fields) ==
    [opp EXCEPT !.bid_closing_date_parsed = fields.bid_closing_date_parsed,
                !.last_changed_fields =
                    IF ChangedContent(opp, fields) = <<>>
                          \/ \E k \in DOMAIN @ : @[k] = "bid_closing_date_parsed"
                    THEN @ ELSE Append(@, "bid_closing_date_parsed")]

\* update all fields from the new extraction
UpdateFields(opp, fields) ==
    [opp EXCEPT !.bid_closing_date_parsed = fields.bid_closing_date_parsed,
                !.last_changed_fields = ChangedContent(opp, fields)]

\* amendment detection that forgets to count the amendment
AmendmentDetectionUncounted(existing_opportunity, new_url, t) ==
    IF existing_opportunity.url # new_url
    THEN [existing_opportunity EXCEPT
            !.has_amendments = TRUE,
            !.last_amendment_at = t,
            !.last_changed_fields =
                IF \E k \in DOMAIN @ : @[k] = "url" THEN @ ELSE Append(@, "url")]
    ELSE existing_opportunity

\* the detection without the 'url' entry of last_changed_fields
AmendmentDetectionUnlisted(existing_opportunity, new_url, t) ==
    IF existing_opportunity.url # new_url
    THEN [existing_opportunity EXCEPT !.amendment_count = @ + 1,
                                      !.has_amendments = TRUE,
                                      !.last_amendment_at = t]
    ELSE existing_opportunity

\* the detection without the has_amendments flag
AmendmentDetectionUnflagged(existing_opportunity, new_url, t) ==
    IF existing_opportunity.url # new_url
    THEN [existing_opportunity EXCEPT
            !.amendment_count = @ + 1,
            !.last_amendment_at = t,
            !.last_changed_fields =
                IF \E k \in DOMAIN @ : @[k] = "url" THEN @ ELSE Append(@, "url")]
    ELSE existing_opportunity

\* amendment detection on save
AmendmentDetection(existing_opportunity, new_url, t) ==
    IF existing_opportunity.url # new_url
    THEN [existing_opportunity EXCEPT
            !.amendment_count = @ + 1,
            !.has_amendments = TRUE,
            !.last_amendment_at = t,
            !.last_changed_fields =
                IF \E k \in DOMAIN @ : @[k] = "url" THEN @ ELSE Append(@, "url")]
    ELSE existing_opportunity

\* a save that leaves the old url in place
SaveExistingKeepsUrl(opp, link, fields, t) ==
    LET detected == AmendmentDetection(UpdateFields(opp, fields), link.url, t)
        touched == opp.url # link.url \/ ChangedContent(opp, fields) # <<>>
    IN  [detected EXCEPT !.update_count = IF touched THEN @ + 1 ELSE @,
                         !.last_checked_at = t]

\* a save that resets is_active with the other fields
SaveExistingReactivates(opp, link, fields, t) ==
    LET detected == AmendmentDetection(UpdateFields(opp, fields), link.url, t)
        touched == opp.url # link.url \/ ChangedContent(opp, fields) # <<>>
    IN  [detected EXCEPT !.url = link.url,
                         !.is_active = TRUE,
                         !.update_count = IF touched THEN @ + 1 ELSE @,
                         !.last_checked_at = t]

\* save of an opportunity that already has a row
SaveExisting(opp, link, fields, t) ==
    LET detected == AmendmentDetection(UpdateFields(opp, fields), link.url, t)
        touched == opp.url # link.url \/ ChangedContent(opp, fields) # <<>>
    IN  [detected EXCEPT !.url = link.url,
                         !.update_count = IF touched THEN @ + 1 ELSE @,
                         !.last_checked_at = t]

\* a refresh that marks the rediscovered record active
UpdateUnchangedActivates(opp, t) == [opp EXCEPT !.last_checked_at = t, !.is_active = TRUE]

\* an unchanged opportunity: just update last_checked_at
UpdateUnchanged(opp, t) == [opp EXCEPT !.last_checked_at = t]

\* removed from the website and marked inactive
DeactivateRemoved(d, removed) ==
    [i \in DOMAIN d |->
        IF \E k \in DOMAIN removed : removed[k].opportunity_code = d[i].opportunity_code
        THEN [d[i] EXCEPT !.is_active = FALSE] ELSE d[i]]

\* removed from the website: keep in the table, do not mark inactive
KeepRemoved(d, removed) == d

\* -------------------------------------- _deactivate_past_due_opportunities
\* the filter without the isnot(None) test
past_due_nullable(d, t) ==
    {i \in DOMAIN d : d[i].is_active /\ d[i].bid_closing_date_parsed < t}

\* the filter with <= in place of <
past_due_inclusive(d, t) ==
    {i \in DOMAIN d : /\ d[i].is_active
                      /\ d[i].bid_closing_date_parsed # NULL
                      /\ d[i].bid_closing_date_parsed <= t}

past_due(d, t) ==
    {i \in DOMAIN d : /\ d[i].is_active
                      /\ d[i].bid_closing_date_parsed # NULL
                      /\ d[i].bid_closing_date_parsed < t}

_deactivate_past_due_opportunities(d, t) ==
    [db |-> [i \in DOMAIN d |->
                IF i \in past_due(d, t) THEN [d[i] EXCEPT !.is_active = FALSE] ELSE d[i]],
     count |-> Cardinality(past_due(d, t))]

\* ------------------------------------------------------------- scrape_all
VARIABLES
    db,        \* the opportunities table, rows in insertion order
    now,       \* datetime.utcnow()
    phase,     \* where the current run stands
    mode,      \* "incremental" or "full"
    links,     \* the listing discovered by this run
    recon,     \* the reconciliation of this run
    todo,      \* the process queue: items not yet processed
    result,    \* the counts and errors the run returns
    sweep,     \* the sweep's clock reading and the rows it found past due
    fetched,   \* the urls this run downloaded and extracted
    pre,       \* the table as the run found it
    runs,      \* number of runs started
    prev,      \* the run before this one: its outcome, and whether its listing was the same
    job,       \* the job processes: run_daily_scraper.sh and run_job.py
    home,      \* the opportunities page: HomePage and its OpportunityFilters
    form       \* the feedback form

vars ==
    <<db, now, phase, mode, links, recon, todo, result, sweep, fetched, pre, runs, prev,
      job, home, form>>

\* the state of a scraper run
scraper == <<db, now, phase, mode, links, recon, todo, result, sweep, fetched, pre, runs, prev>>

\* the state outside the scraper run
outside == <<job, home, form>>

\* the state of the web frontend
frontend == <<home, form>>

Modes == {"incremental", "full"}

NoResult ==
    [new |-> <<>>, amendments |-> <<>>, updated |-> 0, unchanged |-> 0,
     deactivated |-> 0, errors |-> <<>>, error |-> "none"]

NoSweep == [now |-> NULL, past_due |-> {}]

Jobs == 1..MaxJobs

\* a job process before it is started
NotStarted ==
    [kind |-> "none", pc |-> "idle", argv |-> "", SCRAPER |-> 0,
     called |-> FALSE, success |-> FALSE, EXIT_CODE |-> NULL]

\* --------------------------------------------------------------- frontend
\* the list requests the opportunities page may issue
MaxRequests == 3

\* the submissions the feedback form may make
MaxSubmits == 3

\* const pageSize = 24
pageSize == 24

\* the pages the backend has when nothing narrows the list
MaxPages == 2

\* const commonTypes = ["RFP", "RFI", "IFIB", "NOI"], two of them
commonTypes == {"RFP", "IFIB"}

\* what the search box may hold
Texts == {"", "a"}

\* the options of the sort select
SortOptions == {"closing_date_asc", "name_asc"}

\* the names of the quick filters
QuickNames == {"closing_in_7_days", "new_this_week", "updated_this_week"}

\* the arguments the load effect passes to getOpportunities; an empty array, an
\* empty string and false are passed as undefined, which getOpportunities leaves
\* out exactly as it leaves out the empty values
Params(h) ==
    [is_active |-> TRUE, page |-> h.page, page_size |-> pageSize,
     opportunity_type |-> h.filters.opportunity_type, nato_body |-> h.filters.nato_body,
     search |-> h.filters.search, quickFilters |-> h.quickFilters, sort_by |-> h.sortBy]

\* getOpportunities builds the query string: one key=value pair per parameter
\* that is set, one pair per element of an array parameter
getOpportunities(params) ==
    {<<"is_active", IF params.is_active THEN "true" ELSE "false">>}
    \cup {<<"page", ToString(params.page)>>}
    \cup {<<"page_size", ToString(params.page_size)>>}
    \cup {<<"opportunity_type", type>> : type \in params.opportunity_type}
    \cup {<<"nato_body", body>> : body \in params.nato_body}
    \cup (IF params.search # "" THEN {<<"search", params.search>>} ELSE {})
    \cup {<<name, "true">> : name \in {n \in QuickNames : params.quickFilters[n]}}
    \cup (IF params.sort_by # "" THEN {<<"sort_by", params.sort_by>>} ELSE {})

\* GET /api/v1/opportunities answers a query with the page of items it selects,
\* named here by the query itself, and the number of items in all its pages
Answer(query) ==
    [opportunities |-> query,
     total |-> IF \E pair \in query : pair[1] = "search" THEN pageSize
               ELSE MaxPages * pageSize]

\* Math.ceil(total / pageSize)
totalPages(h) == (h.total + pageSize - 1) \div pageSize

\* the load effect: setIsLoading(true) and a request for the state just rendered
Load(h) ==
    [h EXCEPT !.isLoading = TRUE, !.issued = @ + 1, !.last = "pending",
              !.requests = @ \cup {[id |-> h.issued + 1,
                                    query |-> getOpportunities(Params(h))]}]

\* the effects after a render in which filters, quickFilters or sortBy changed:
\* the load effect, then the reset effect's setPage(1), whose render, if the page
\* was not 1, runs the load effect again
Effects(h) ==
    IF h.page = 1 THEN Load(h) ELSE Load([Load(h) EXCEPT !.page = 1])

NoFilters == [opportunity_type |-> {}, nato_body |-> {}, search |-> ""]

\* the opportunities page before its first render
HomePage ==
    [isLoading |-> TRUE, filters |-> NoFilters,
     quickFilters |-> [n \in QuickNames |-> FALSE], sortBy |-> "closing_date_asc",
     opportunities |-> {}, page |-> 1, total |-> 0,
     searchValue |-> "", timer |-> {}, requests |-> {}, issued |-> 0, last |-> "none"]

\* setTimeout(() => onFiltersChange({ ...filters, search: searchValue }), 300): the
\* timer keeps the filters and the search text of the render that set it
Debounce(h) == [h EXCEPT !.timer = {[filters |-> h.filters, searchValue |-> h.searchValue]}]

\* the opportunities page after mounting: the first request is out and the
\* debounce timer of the first render is set
Mounted == Debounce(Effects(HomePage))

\* the feedback form before anything is typed
FeedbackForm ==
    [status |-> "idle", message |-> "", title |-> "", description |-> "",
     outstanding |-> 0, timers |-> 0, submitted |-> 0]

Init ==
    /\ db = <<OtherRecord>>
    /\ now = 0
    /\ phase = "IDLE"
    /\ mode = "incremental"
    /\ links = <<>>
    /\ recon = NoReconciliation
    /\ todo = <<>>
    /\ result = NoResult
    /\ sweep = NoSweep
    /\ fetched = {}
    /\ pre = <<OtherRecord>>
    /\ runs = 0
    /\ prev = [same |-> FALSE, outcome |-> "none"]
    /\ job = [j \in Jobs |-> NotStarted]
    /\ home = Mounted
    /\ form = FeedbackForm

\* how the finished run is remembered by the next one
Outcome ==
    IF phase = "IDLE" THEN "none"
    ELSE IF phase = "FAILED" THEN "failed"
    ELSE IF result.errors # <<>> THEN "errors"
    ELSE "clean"

\* the job starts a run in the mode given on its command line
StartRun(m) ==
    /\ phase \in {"IDLE", "DONE", "FAILED"}
    /\ runs < MaxRuns
    /\ runs' = runs + 1
    /\ prev' = [same |-> FALSE, outcome |-> Outcome]
    /\ phase' = "DISCOVERING"
    /\ mode' = m
    /\ recon' = NoReconciliation
    /\ todo' = <<>>
    /\ result' = NoResult
    /\ sweep' = NoSweep
    /\ fetched' = {}
    /\ pre' = db
    /\ UNCHANGED <<db, now, links, outside>>

\* Phase 1: links = await self.get_opportunity_links()
Discover(listing) ==
    /\ phase = "DISCOVERING"
    /\ links' = listing
    /\ prev' = [prev EXCEPT !.same = (prev.outcome # "none" /\ listing = links)]
    /\ phase' = "RECONCILING"
    /\ UNCHANGED <<db, now, mode, recon, todo, result, sweep, fetched, pre, runs, outside>>

\* discovery raises: the run fails
DiscoverFails ==
    /\ phase = "DISCOVERING"
    /\ phase' = "FAILED"
    /\ result' = [result EXCEPT !.error = "discovery"]
    /\ UNCHANGED <<db, now, mode, links, recon, todo, sweep, fetched, pre, runs, prev, outside>>

Items(kind, ls) == [k \in DOMAIN ls |-> [kind |-> kind, link |-> ls[k]]]

\* the process queue: new first, then amendments, then unchanged
ProcessQueue(r) ==
    Items("new", r.new)
    \o Items("amendment", [k \in DOMAIN r.amendments |-> r.amendments[k].link])
    \o Items("unchanged", [k \in DOMAIN r.unchanged |-> [url |-> r.unchanged[k].url]])

\* Phase 2 (incremental): reconciliation = self._reconcile_opportunities(links, db)
Reconcile ==
    /\ phase = "RECONCILING"
    /\ mode = "incremental"
    /\ \A k \in DOMAIN links : extract_code(links[k].url) # NoCode
    /\ recon' = _reconcile_opportunities(links, db)
    /\ todo' = ProcessQueue(recon')
    /\ db' = KeepRemoved(db, recon'.removed)
    /\ phase' = "PROCESSING"
    /\ UNCHANGED <<now, mode, links, result, sweep, fetched, pre, runs, prev, outside>>

\* a reconciliation failure after which the run still sweeps
ReconcileFailsSwept(why) ==
    /\ phase = "RECONCILING"
    /\ mode = "incremental"
    /\ \/ why = "storage read"
       \/ why = "extract_code" /\ \E k \in DOMAIN links : extract_code(links[k].url) = NoCode
    /\ phase' = "RETIRING"
    /\ result' = [result EXCEPT !.error = why]
    /\ UNCHANGED <<db, now, mode, links, recon, todo, sweep, fetched, pre, runs, prev, outside>>

\* the table read fails, or extract_code raises on a link: the run fails
ReconcileFails(why) ==
    /\ phase = "RECONCILING"
    /\ mode = "incremental"
    /\ \/ why = "storage read"
       \/ why = "extract_code" /\ \E k \in DOMAIN links : extract_code(links[k].url) = NoCode
    /\ phase' = "FAILED"
    /\ result' = [result EXCEPT !.error = why]
    /\ UNCHANGED <<db, now, mode, links, recon, todo, sweep, fetched, pre, runs, prev, outside>>

\* full mode: process all links, one by one, without reconciliation
QueueAll ==
    /\ phase = "RECONCILING"
    /\ mode = "full"
    /\ todo' = Items("full", links)
    /\ phase' = "PROCESSING"
    /\ UNCHANGED <<db, now, mode, links, recon, result, sweep, fetched, pre, runs, prev, outside>>

\* the entry of the error list for a failed item: the offending code and url
ItemError(item) ==
    [code |-> extract_code(item.link.url), url |-> item.link.url]

\* an item failure that ends the run
ProcessFailsAborts(why) ==
    /\ phase = "PROCESSING"
    /\ todo # <<>>
    /\ LET item == Head(todo)
       IN  /\ why = "extract_code" => item.kind = "full" /\ extract_code(item.link.url) = NoCode
           /\ why = "extraction" => item.kind # "unchanged" /\ extract_code(item.link.url) # NoCode
           /\ why = "storage write" => extract_code(item.link.url) # NoCode
           /\ result' = [result EXCEPT !.errors = Append(@, ItemError(item)), !.error = why]
           /\ fetched' = IF why = "extract_code" \/ item.kind = "unchanged"
                         THEN fetched ELSE fetched \cup {item.link.url}
    /\ phase' = "FAILED"
    /\ UNCHANGED <<db, now, mode, links, recon, todo, sweep, pre, runs, prev, outside>>

\* an item failure after which the item is put back in the queue
ProcessFailsRetries(why) ==
    /\ phase = "PROCESSING"
    /\ todo # <<>>
    /\ todo' = Append(Tail(todo), Head(todo))
    /\ UNCHANGED <<db, now, phase, mode, links, recon, result, sweep, fetched, pre, runs, prev, outside>>

\* one item of the queue fails: recorded, the run goes on
ProcessFails(why) ==
    /\ phase = "PROCESSING"
    /\ todo # <<>>
    /\ LET item == Head(todo)
       IN  /\ why = "extract_code" => item.kind = "full" /\ extract_code(item.link.url) = NoCode
           /\ why = "extraction" => item.kind # "unchanged" /\ extract_code(item.link.url) # NoCode
           /\ why = "storage write" => extract_code(item.link.url) # NoCode
           /\ result' = [result EXCEPT !.errors = Append(@, ItemError(item))]
           /\ fetched' = IF why = "extract_code" \/ item.kind = "unchanged"
                         THEN fetched ELSE fetched \cup {item.link.url}
    /\ todo' = Tail(todo)
    /\ UNCHANGED <<db, now, phase, mode, links, recon, sweep, pre, runs, prev, outside>>

\* one item of the queue is fetched, extracted and saved
ProcessItem(fields) ==
    /\ phase = "PROCESSING"
    /\ todo # <<>>
    /\ LET item == Head(todo)
           code == extract_code(item.link.url)
           row == RowOf(db, code)
       IN  /\ code # NoCode
           /\ item.kind # "unchanged"
           /\ IF item.kind = "new" \/ (item.kind = "full" /\ RowsOf(db, code) = {})
              THEN /\ db' = Append(db, NewRecord(item.link, fields, now))
                   /\ result' = [result EXCEPT !.new = Append(@, code)]
              ELSE /\ db' = [db EXCEPT ![row] = SaveExisting(@, item.link, fields, now)]
                   /\ result' = IF db[row].url # item.link.url
                                THEN [result EXCEPT !.amendments = Append(@, code)]
                                ELSE [result EXCEPT !.updated = @ + 1]
           /\ fetched' = fetched \cup {item.link.url}
    /\ todo' = Tail(todo)
    /\ UNCHANGED <<now, phase, mode, links, recon, sweep, pre, runs, prev, outside>>

\* an unchanged opportunity: no download, no extraction
TouchUnchanged ==
    /\ phase = "PROCESSING"
    /\ todo # <<>>
    /\ LET item == Head(todo)
           row == RowOf(db, extract_code(item.link.url))
       IN  /\ item.kind = "unchanged"
           /\ db' = [db EXCEPT ![row] = UpdateUnchanged(@, now)]
           /\ result' = [result EXCEPT !.unchanged = @ + 1]
    /\ todo' = Tail(todo)
    /\ UNCHANGED <<now, phase, mode, links, recon, sweep, fetched, pre, runs, prev, outside>>

\* the auto-deactivation placed inside the incremental branch
AfterProcessingIncrementalOnly(m) == IF m = "incremental" THEN "RETIRING" ELSE "DONE"

\* a run that returns its counts straight after processing
AfterProcessingReturns(m) == "DONE"

\* what follows processing in either mode: the auto-deactivation
AfterProcessing(m) == "RETIRING"

\* a loop that can leave the queue before it is empty
ProcessingDoneEarly ==
    /\ phase = "PROCESSING"
    /\ phase' = AfterProcessing(mode)
    /\ UNCHANGED <<db, now, mode, links, recon, todo, result, sweep, fetched, pre, runs, prev, outside>>

ProcessingDone ==
    /\ phase = "PROCESSING"
    /\ todo = <<>>
    /\ phase' = AfterProcessing(mode)
    /\ UNCHANGED <<db, now, mode, links, recon, todo, result, sweep, fetched, pre, runs, prev, outside>>

\* deactivated_count = self._deactivate_past_due_opportunities(db)
Retire ==
    /\ phase = "RETIRING"
    /\ LET swept == _deactivate_past_due_opportunities(db, now)
       IN  /\ db' = swept.db
           /\ result' = [result EXCEPT !.deactivated = swept.count]
    /\ sweep' = [now |-> now, past_due |-> past_due(db, now)]
    /\ phase' = "DONE"
    /\ UNCHANGED <<now, mode, links, recon, todo, fetched, pre, runs, prev, outside>>

\* time passes between runs: one step of the clock is longer than a run, so every
\* utcnow() of a run reads the same value
Tick ==
    /\ phase \in {"IDLE", "DONE", "FAILED"}
    /\ now < MaxTime
    /\ now' = now + 1
    /\ UNCHANGED <<db, phase, mode, links, recon, todo, result, sweep, fetched, pre, runs, prev, outside>>

Next ==
    \/ \E m \in Modes : StartRun(m)
    \/ \E listing \in Snapshots : Discover(listing)
    \/ DiscoverFails
    \/ Reconcile
    \/ \E why \in {"storage read", "extract_code"} : ReconcileFails(why)
    \/ QueueAll
    \/ \E why \in {"extract_code", "extraction", "storage write"} : ProcessFails(why)
    \/ \E fields \in FieldSets : ProcessItem(fields)
    \/ TouchUnchanged
    \/ ProcessingDone
    \/ Retire
    \/ Tick

Spec == Init /\ [][Next]_vars

\* ------------------------------------------------------------ termination
\* a step of the run in progress: a collaborator call returns or fails, or the
\* orchestrator moves on
RunStep ==
    \/ \E listing \in Snapshots : Discover(listing)
    \/ DiscoverFails
    \/ Reconcile
    \/ \E why \in {"storage read", "extract_code"} : ReconcileFails(why)
    \/ QueueAll
    \/ \E why \in {"extract_code", "extraction", "storage write"} : ProcessFails(why)
    \/ \E fields \in FieldSets : ProcessItem(fields)
    \/ TouchUnchanged
    \/ ProcessingDone
    \/ Retire

\* a record an earlier run created
SeededRecord ==
    NewRecord([url |-> Url("c1", FALSE, TRUE)], [bid_closing_date_parsed |-> 0], 0)

\* the state before a run on the table an earlier run left
InitSeeded ==
    /\ db = <<OtherRecord, SeededRecord>>
    /\ now = 0
    /\ phase = "IDLE"
    /\ mode = "incremental"
    /\ links = <<>>
    /\ recon = NoReconciliation
    /\ todo = <<>>
    /\ result = NoResult
    /\ sweep = NoSweep
    /\ fetched = {}
    /\ pre = <<OtherRecord, SeededRecord>>
    /\ runs = 0
    /\ prev = [same |-> FALSE, outcome |-> "none"]
    /\ job = [j \in Jobs |-> NotStarted]
    /\ home = Mounted
    /\ form = FeedbackForm

\* the one run followed to its end
OneRun(m) == runs = 0 /\ StartRun(m)

NextOneRun == (\E m \in Modes : OneRun(m)) \/ RunStep \/ Tick

\* one run, under the assumption that a run in progress is not left waiting:
\* every collaborator call returns or fails, and the orchestrator then moves on
SpecFair == InitSeeded /\ [][NextOneRun]_vars /\ WF_vars(RunStep)

\* ----------------------------------------------------------- cancellation
\* a cancellation that rolls the run's writes back
CancelRollsBack ==
    /\ phase = "PROCESSING"
    /\ phase' = "FAILED"
    /\ db' = pre
    /\ result' = [result EXCEPT !.error = "cancelled"]
    /\ UNCHANGED <<now, mode, links, recon, todo, sweep, fetched, pre, runs, prev, outside>>

\* the run is aborted between two items: what is left of the queue is dropped
Cancel ==
    /\ phase = "PROCESSING"
    /\ phase' = "FAILED"
    /\ result' = [result EXCEPT !.error = "cancelled"]
    /\ UNCHANGED <<db, now, mode, links, recon, todo, sweep, fetched, pre, runs, prev, outside>>

NextCancellable == Next \/ Cancel

SpecCancel == Init /\ [][NextCancellable]_vars

\* ------------------------------------------------------------------- jobs
\* SCRAPERS=("ACT-IFIB" "ACT-NOI" "ACT-RFI" "ACT-RFIP")
SCRAPERS == <<"ACT-IFIB", "ACT-NOI", "ACT-RFI", "ACT-RFIP">>

\* sys.argv[1:] of run_job.py: nothing, a mode, or something else
Args == {"", "incremental", "full", "fulll"}

\* the (source, category) scope of the pass a job process runs
Scope(j) ==
    IF job[j].kind = "run_daily_scraper.sh" THEN SCRAPERS[job[j].SCRAPER] ELSE "ACT-IFIB"

\* the job process is inside a scraper pass
Running(j) == job[j].pc = "running"

\* run_daily_scraper.sh is started: the loop begins at the first scraper
run_daily_scraper(j) ==
    /\ job[j].pc = "idle"
    /\ job' = [job EXCEPT ![j] = [@ EXCEPT !.kind = "run_daily_scraper.sh",
                                           !.pc = "loop", !.SCRAPER = 1]]
    /\ UNCHANGED <<scraper, frontend>>

\* "$PYTHON" -m jobs.daily_scraper_job_act_* incremental
RunScraper(j) ==
    /\ job[j].kind = "run_daily_scraper.sh"
    /\ job[j].pc = "loop"
    /\ job[j].SCRAPER <= Len(SCRAPERS)
    /\ job' = [job EXCEPT ![j] = [@ EXCEPT !.pc = "running", !.called = TRUE]]
    /\ UNCHANGED <<scraper, frontend>>

\* EXIT_CODE=$? is logged, and the loop goes to the next scraper whatever it is
ScraperExits(j, code) ==
    /\ job[j].kind = "run_daily_scraper.sh"
    /\ job[j].pc = "running"
    /\ job' = [job EXCEPT ![j] = [@ EXCEPT !.pc = "loop", !.EXIT_CODE = code,
                                           !.success = (code = 0), !.SCRAPER = @ + 1]]
    /\ UNCHANGED <<scraper, frontend>>

\* after the loop: check_succeeded_nois, the closing log lines, end of script
ScriptEnds(j) ==
    /\ job[j].kind = "run_daily_scraper.sh"
    /\ job[j].pc = "loop"
    /\ job[j].SCRAPER > Len(SCRAPERS)
    /\ job' = [job EXCEPT ![j] = [@ EXCEPT !.pc = "exited", !.EXIT_CODE = 0]]
    /\ UNCHANGED <<scraper, frontend>>

\* main() up to the call: the mode is argv[1] or "incremental", an invalid mode
\* exits 1, a valid one calls run_job_sync(mode=mode)
main(j, argv) ==
    /\ job[j].pc = "idle"
    /\ LET m == IF argv = "" THEN "incremental" ELSE argv
       IN  job' = [job EXCEPT ![j] =
                     IF m \notin Modes
                     THEN [@ EXCEPT !.kind = "run_job.py", !.argv = argv,
                                    !.pc = "exited", !.EXIT_CODE = 1]
                     ELSE [@ EXCEPT !.kind = "run_job.py", !.argv = argv,
                                    !.pc = "running", !.called = TRUE]]
    /\ UNCHANGED <<scraper, frontend>>

\* a job that exits 0 whatever the result
ExitStatusZero(results) == 0

\* if results['success']: sys.exit(0) else: sys.exit(1)
ExitStatus(results) == IF results.success THEN 0 ELSE 1

\* run_job_sync returns its results to main(), which exits on them
run_job_sync(j, results) ==
    /\ job[j].kind = "run_job.py"
    /\ job[j].pc = "running"
    /\ job' = [job EXCEPT ![j] = [@ EXCEPT !.pc = "exited", !.success = results.success,
                                           !.EXIT_CODE = ExitStatus(results)]]
    /\ UNCHANGED <<scraper, frontend>>

NextJobs ==
    \/ \E j \in Jobs : run_daily_scraper(j)
    \/ \E j \in Jobs : RunScraper(j)
    \/ \E j \in Jobs, code \in {0, 1} : ScraperExits(j, code)
    \/ \E j \in Jobs : ScriptEnds(j)
    \/ \E j \in Jobs, argv \in Args : main(j, argv)
    \/ \E j \in Jobs, results \in [success : BOOLEAN] : run_job_sync(j, results)

SpecJobs == Init /\ [][NextJobs]_vars

\* ------------------------------------------------------ opportunities page
\* a handler that only sets the filters: the page is kept, also by the effects
onFiltersChangeKeepsPage(h, newFilters) == Load([h EXCEPT !.filters = newFilters])

\* onFiltersChange={(newFilters) => { setFilters(newFilters); setPage(1); }}, and
\* the effects of the render that follows
onFiltersChange(h, newFilters) == Effects([h EXCEPT !.filters = newFilters, !.page = 1])

\* the frontend may still issue a list request
MayRequest == home.issued < MaxRequests

\* onChange={(e) => setSearchValue(e.target.value)}: the debounce effect clears
\* the pending timer and sets a new one
setSearchValue(value) ==
    /\ value # home.searchValue
    /\ home' = Debounce([home EXCEPT !.searchValue = value])
    /\ UNCHANGED <<scraper, job, form>>

\* 300 ms after the last change of searchValue the timer calls
\* onFiltersChange({ ...filters, search: searchValue }) with the values it kept
TimerFires ==
    /\ MayRequest
    /\ \E timer \in home.timer :
          home' = onFiltersChange([home EXCEPT !.timer = {}],
                                  [timer.filters EXCEPT !.search = timer.searchValue])
    /\ UNCHANGED <<scraper, job, form>>

\* handleTypeClick toggles the type in filters.opportunity_type
handleTypeClick(type) ==
    /\ MayRequest
    /\ LET currentTypes == home.filters.opportunity_type
           newTypes == IF type \in currentTypes THEN currentTypes \ {type}
                       ELSE currentTypes \cup {type}
       IN  home' = onFiltersChange(home, [home.filters EXCEPT !.opportunity_type = newTypes])
    /\ UNCHANGED <<scraper, job, form>>

\* filters.opportunity_type.length > 0 || filters.nato_body.length > 0 || filters.search
hasActiveFilters ==
    \/ home.filters.opportunity_type # {}
    \/ home.filters.nato_body # {}
    \/ home.filters.search # ""

\* clearFilters: setSearchValue("") and onFiltersChange of the empty filters; a
\* changed searchValue sets the debounce timer of the new render
clearFilters ==
    /\ MayRequest
    /\ hasActiveFilters
    /\ LET cleared == onFiltersChange([home EXCEPT !.searchValue = ""], NoFilters)
       IN  home' = IF home.searchValue # "" THEN Debounce(cleared) ELSE cleared
    /\ UNCHANGED <<scraper, job, form>>

\* a quick-filter button: setQuickFilters(prev => ({...prev, name: !prev.name})); setPage(1)
ToggleQuickFilter(name) ==
    /\ MayRequest
    /\ home' = Effects([home EXCEPT !.quickFilters[name] = ~@, !.page = 1])
    /\ UNCHANGED <<scraper, job, form>>

\* "Clear quick filters", shown while one of them is on
ClearQuickFilters ==
    /\ MayRequest
    /\ \E name \in QuickNames : home.quickFilters[name]
    /\ home' = Effects([home EXCEPT !.quickFilters = [n \in QuickNames |-> FALSE], !.page = 1])
    /\ UNCHANGED <<scraper, job, form>>

\* the sort select: setSortBy(e.target.value); setPage(1)
setSortBy(value) ==
    /\ MayRequest
    /\ value # home.sortBy
    /\ home' = Effects([home EXCEPT !.sortBy = value, !.page = 1])
    /\ UNCHANGED <<scraper, job, form>>

\* the pagination buttons, shown while totalPages > 1: previous, a page number,
\* next; a changed page runs the load effect only
setPage(pageNum) ==
    /\ MayRequest
    /\ totalPages(home) > 1
    /\ pageNum \in 1..totalPages(home)
    /\ pageNum # home.page
    /\ home' = Load([home EXCEPT !.page = pageNum])
    /\ UNCHANGED <<scraper, job, form>>

\* .then((data) => { setOpportunities(data.opportunities); setTotal(data.total);
\* setIsLoading(false); }) of whichever request is answered now
Resolves(request) ==
    /\ request \in home.requests
    /\ home' = [home EXCEPT !.opportunities = Answer(request.query).opportunities,
                            !.total = Answer(request.query).total,
                            !.isLoading = FALSE,
                            !.requests = @ \ {request},
                            !.last = IF request.id = home.issued THEN "ok" ELSE @]
    /\ UNCHANGED <<scraper, job, form>>

\* .catch((error) => { console.error(...); setIsLoading(false); })
Rejects(request) ==
    /\ request \in home.requests
    /\ home' = [home EXCEPT !.isLoading = FALSE,
                            !.requests = @ \ {request},
                            !.last = IF request.id = home.issued THEN "failed" ELSE @]
    /\ UNCHANGED <<scraper, job, form>>

NextHome ==
    \/ \E value \in Texts : setSearchValue(value)
    \/ TimerFires
    \/ \E type \in commonTypes : handleTypeClick(type)
    \/ clearFilters
    \/ \E name \in QuickNames : ToggleQuickFilter(name)
    \/ ClearQuickFilters
    \/ \E value \in SortOptions : setSortBy(value)
    \/ \E pageNum \in 1..MaxPages : setPage(pageNum)
    \/ \E request \in home.requests : Resolves(request)
    \/ \E request \in home.requests : Rejects(request)

SpecHome == Init /\ [][NextHome]_vars

\* ----------------------------------------------------------- feedback form
\* what the title and the description may hold
FormTexts == {"", " ", "t"}

\* String.prototype.trim on these texts
trim(text) == IF text = " " THEN "" ELSE text

\* disabled={status === "loading" || !title.trim() || !description.trim()}
SubmitDisabled ==
    \/ form.status = "loading"
    \/ trim(form.title) = ""
    \/ trim(form.description) = ""

\* onChange={(e) => setTitle(e.target.value)}; the input is disabled while loading
setTitle(value) ==
    /\ form.status # "loading"
    /\ value # form.title
    /\ form' = [form EXCEPT !.title = value]
    /\ UNCHANGED <<scraper, job, home>>

\* onChange={(e) => setDescription(e.target.value)}; disabled while loading
setDescription(value) ==
    /\ form.status # "loading"
    /\ value # form.description
    /\ form' = [form EXCEPT !.description = value]
    /\ UNCHANGED <<scraper, job, home>>

\* handleSubmit up to the await: setStatus("loading"); setMessage("");
\* createFeedback(feedbackData) is sent
handleSubmit ==
    /\ form.submitted < MaxSubmits
    /\ ~SubmitDisabled
    /\ form' = [form EXCEPT !.status = "loading", !.message = "",
                            !.outstanding = @ + 1, !.submitted = @ + 1]
    /\ UNCHANGED <<scraper, job, home>>

\* handleSubmit after the await: setStatus("success"), the fields are reset and
\* the timer that sets the status back to idle is started
createFeedbackResolves ==
    /\ form.outstanding > 0
    /\ form' = [form EXCEPT !.status = "success", !.message = "Thank you!",
                            !.title = "", !.description = "",
                            !.outstanding = @ - 1, !.timers = @ + 1]
    /\ UNCHANGED <<scraper, job, home>>

\* catch: setStatus("error"); setMessage(...)
createFeedbackRejects ==
    /\ form.outstanding > 0
    /\ form' = [form EXCEPT !.status = "error", !.message = "Failed to submit feedback.",
                            !.outstanding = @ - 1]
    /\ UNCHANGED <<scraper, job, home>>

\* setTimeout(() => { onSuccess(); setStatus("idle"); setMessage(""); }, 2000),
\* or the same without onSuccess after 3000: the timer is never cleared
ResetTimerFires ==
    /\ form.timers > 0
    /\ form' = [form EXCEPT !.status = "idle", !.message = "", !.timers = @ - 1]
    /\ UNCHANGED <<scraper, job, home>>

NextForm ==
    \/ \E value \in FormTexts : setTitle(value)
    \/ \E value \in FormTexts : setDescription(value)
    \/ handleSubmit
    \/ createFeedbackResolves
    \/ createFeedbackRejects
    \/ ResetTimerFires

SpecForm == Init /\ [][NextForm]_vars

TypeOK ==
    /\ phase \in {"IDLE", "DISCOVERING", "RECONCILING", "PROCESSING", "RETIRING", "DONE", "FAILED"}
    /\ mode \in Modes
    /\ now \in 0..MaxTime
    /\ runs \in 0..MaxRuns

\* ================================================================= claims
\* the codes of a sequence of links, of records
Range(seq) == {seq[k] : k \in DOMAIN seq}

LinkCodes(ls) == {extract_code(ls[k].url) : k \in DOMAIN ls}

\* how many members of seq have the code
Occurrences(seq, CodeOf(_), code) == Cardinality({k \in DOMAIN seq : CodeOf(seq[k]) = code})

CodeOfLink(link) == extract_code(link.url)

CodeOfPair(pair) == extract_code(pair.link.url)

CodeOfOpp(opp) == opp.opportunity_code

\* the run has reconciled its listing against the table
Reconciled == mode = "incremental" /\ phase \in {"PROCESSING", "RETIRING", "DONE"}

\* the time of the run's processing (the clock does not move during a run)
RunTime == IF phase = "DONE" THEN sweep.now ELSE now

\* the last link of the listing with the code
LastLink(ls, code) ==
    LET at == {k \in DOMAIN ls : extract_code(ls[k].url) = code}
    IN  ls[CHOOSE k \in at : \A j \in at : j <= k]

\* C1: reconciliation partitions: every distinct discovered code is in exactly one
\* of new / amendment / unchanged, every existing record of the scope is in exactly
\* one of amendment / unchanged / removed, and the groups hold nothing else.
C1_Partition ==
    Reconciled =>
        /\ \A code \in LinkCodes(links) :
              Occurrences(recon.new, CodeOfLink, code)
              + Occurrences(recon.amendments, CodeOfPair, code)
              + Occurrences(recon.unchanged, CodeOfOpp, code) = 1
        /\ \A opp \in Range(existing(pre)) :
              Cardinality({k \in DOMAIN recon.amendments : recon.amendments[k].opp = opp})
              + Cardinality({k \in DOMAIN recon.unchanged : recon.unchanged[k] = opp})
              + Cardinality({k \in DOMAIN recon.removed : recon.removed[k] = opp}) = 1
        /\ \A k \in DOMAIN recon.new :
              /\ recon.new[k] \in Range(links)
              /\ \A opp \in Range(existing(pre)) : opp.opportunity_code # CodeOfLink(recon.new[k])
        /\ \A k \in DOMAIN recon.amendments :
              /\ recon.amendments[k].link \in Range(links)
              /\ recon.amendments[k].opp \in Range(existing(pre))
              /\ recon.amendments[k].opp.opportunity_code = CodeOfPair(recon.amendments[k])
        /\ \A k \in DOMAIN recon.unchanged :
              /\ recon.unchanged[k] \in Range(existing(pre))
              /\ recon.unchanged[k].opportunity_code \in LinkCodes(links)
        /\ \A k \in DOMAIN recon.removed :
              /\ recon.removed[k] \in Range(existing(pre))
              /\ recon.removed[k].opportunity_code \notin LinkCodes(links)

\* a listing with a repeated code reconciled into an amendment and a new record
C1_Witness ==
    /\ Reconciled
    /\ Len(links) > Cardinality(LinkCodes(links))
    /\ recon.amendments # <<>>

C1_WitnessMixed ==
    /\ Reconciled
    /\ recon.amendments # <<>>
    /\ recon.new # <<>>

\* C2: a pair classified as amendment and processed successfully leaves the record
\* with amendment_count one above its value before the run, has_amendments true and
\* last_amendment_at at the run's processing time.
C2_AmendmentApplied ==
    Reconciled =>
        \A k \in DOMAIN recon.amendments :
            LET pair == recon.amendments[k]
                code == pair.opp.opportunity_code
            IN  code \in Range(result.amendments) =>
                    LET opp == db[RowOf(db, code)]
                    IN  /\ opp.amendment_count = pair.opp.amendment_count + 1
                        /\ opp.has_amendments
                        /\ opp.last_amendment_at = RunTime

\* a finished run that applied an amendment to a record amended before
C2_Witness ==
    /\ Reconciled
    /\ phase = "DONE"
    /\ \E k \in DOMAIN recon.amendments :
          recon.amendments[k].opp.opportunity_code \in Range(result.amendments)

\* the fields a refresh of an unchanged record must leave alone
SameButChecked(before, after) ==
    /\ after.amendment_count = before.amendment_count
    /\ after.has_amendments = before.has_amendments
    /\ after.last_amendment_at = before.last_amendment_at
    /\ after.update_count = before.update_count
    /\ after.url = before.url
    /\ after.last_changed_fields = before.last_changed_fields
    /\ after.bid_closing_date_parsed = before.bid_closing_date_parsed
    /\ after.opportunity_code = before.opportunity_code

\* record i of the table was rediscovered with some link of the same URL ending
RediscoveredSameEnding(i) ==
    \E k \in DOMAIN links :
        /\ extract_code(links[k].url) = pre[i].opportunity_code
        /\ extract_url_ending(links[k].url) = extract_url_ending(pre[i].url)

\* C3 as stated: a record rediscovered with a link of the same URL ending keeps
\* every field but last_checked_at over the run, and is not fetched.
C3_AsStated ==
    phase = "DONE" =>
        \A i \in DOMAIN pre :
            (InScope(pre[i]) /\ RediscoveredSameEnding(i)) =>
                /\ SameButChecked(pre[i], db[i])
                /\ \A url \in fetched : extract_code(url) # pre[i].opportunity_code

\* C3 amended: in an incremental run, a record whose last-seen link has the same
\* URL ending keeps every field but last_checked_at, and is not fetched.
C3_UnchangedOnlyChecked ==
    Reconciled =>
        \A i \in DOMAIN pre :
            (/\ InScope(pre[i])
             /\ pre[i].opportunity_code \in LinkCodes(links)
             /\ extract_url_ending(LastLink(links, pre[i].opportunity_code).url)
                    = extract_url_ending(pre[i].url)) =>
                /\ SameButChecked(pre[i], db[i])
                /\ db[i].last_checked_at \in {pre[i].last_checked_at, RunTime}
                /\ \A url \in fetched : extract_code(url) # pre[i].opportunity_code

\* an unchanged record refreshed by a finished incremental run, its link differing
\* from the stored url only by the trailing slash
C3_Witness ==
    /\ Reconciled
    /\ phase = "DONE"
    /\ result.unchanged > 0
    /\ \E i \in DOMAIN pre :
          /\ InScope(pre[i])
          /\ pre[i].opportunity_code \in LinkCodes(links)
          /\ LastLink(links, pre[i].opportunity_code).url # pre[i].url
          /\ extract_url_ending(LastLink(links, pre[i].opportunity_code).url)
                 = extract_url_ending(pre[i].url)
          /\ db[i].last_checked_at = sweep.now
          /\ pre[i].last_checked_at # sweep.now

C5_NullNeverRetired ==
    [][\A i \in DOMAIN db :
          (db[i].bid_closing_date_parsed = NULL /\ db[i].is_active) => db'[i].is_active]_vars

\* a sweep late in time that retired a record and left one with a null date active
C5_Witness ==
    /\ phase = "DONE"
    /\ sweep.now = MaxTime
    /\ sweep.past_due # {}
    /\ \E i \in DOMAIN db : db[i].bid_closing_date_parsed = NULL /\ db[i].is_active

\* record i of the table is in the scope and its code is not in the listing
Vanished(i) == InScope(pre[i]) /\ pre[i].opportunity_code \notin LinkCodes(links)

\* C6: a record stays in the table; a vanished record keeps its is_active up to
\* the sweep, and is still active after the run when its date is null or not past.
C6_VanishedKept ==
    /\ \A i \in DOMAIN pre :
          i \in DOMAIN db /\ db[i].opportunity_code = pre[i].opportunity_code
    /\ phase \in {"PROCESSING", "RETIRING"} =>
          \A i \in DOMAIN pre : Vanished(i) => db[i].is_active = pre[i].is_active
    /\ phase = "DONE" =>
          \A i \in DOMAIN pre :
              (/\ Vanished(i)
               /\ pre[i].is_active
               /\ \/ pre[i].bid_closing_date_parsed = NULL
                  \/ pre[i].bid_closing_date_parsed >= sweep.now) => db[i].is_active

\* a finished run whose listing lacks an active record with an open date
C6_Witness ==
    /\ phase = "DONE"
    /\ links # <<>>
    /\ \E i \in DOMAIN pre :
          /\ Vanished(i)
          /\ pre[i].is_active
          /\ pre[i].bid_closing_date_parsed = MaxTime
          /\ db[i].is_active

\* C7: the sweep deactivates exactly the active records with a non-null
\* bid_closing_date_parsed before now, leaves the others alone and returns the
\* number it deactivated.
C7_SweepExact ==
    [][(phase = "RETIRING" /\ phase' = "DONE") =>
          /\ DOMAIN db' = DOMAIN db
          /\ \A i \in DOMAIN db :
                /\ db'[i].is_active =
                      (db[i].is_active /\ ~(/\ db[i].bid_closing_date_parsed # NULL
                                            /\ db[i].bid_closing_date_parsed < now))
                /\ db'[i] = [db[i] EXCEPT !.is_active = db'[i].is_active]
          /\ result'.deactivated =
                Cardinality({i \in DOMAIN db : db[i].is_active /\ ~db'[i].is_active})]_vars

\* a sweep that retired one record and left active one whose date is now
C7_Witness ==
    /\ phase = "DONE"
    /\ result.deactivated = 1
    /\ \E i \in DOMAIN db : db[i].is_active /\ db[i].bid_closing_date_parsed = sweep.now
    /\ \E i \in DOMAIN db : ~db[i].is_active /\ i \notin sweep.past_due

\* C8: no step sets an inactive record active again, so nothing the sweeper
\* retired comes back in the rest of its run.
C8_RetiredStays ==
    [][\A i \in DOMAIN db : ~db[i].is_active => ~db'[i].is_active]_vars

\* the sweeper has retired a record of the scope that this run had just saved
C8_Witness ==
    /\ phase = "DONE"
    /\ \E i \in sweep.past_due :
          /\ InScope(db[i])
          /\ ~db[i].is_active
          /\ db[i].opportunity_code \in Range(result.amendments) \cup Range(result.new)

\* C9: a run that reaches DONE, in either mode, has swept: no record is left
\* active with a parsed closing date before the sweep's time.
C9_SweptAtEnd ==
    phase = "DONE" =>
        /\ sweep.now # NULL
        /\ \A i \in DOMAIN db :
              ~(/\ db[i].is_active
                /\ db[i].bid_closing_date_parsed # NULL
                /\ db[i].bid_closing_date_parsed < sweep.now)

\* a full run retired a record that had vanished from the listing
C9_Witness ==
    /\ phase = "DONE"
    /\ mode = "full"
    /\ \E i \in sweep.past_due :
          i \in DOMAIN pre /\ Vanished(i) /\ pre[i].is_active /\ ~db[i].is_active

\* this step processes, without error, a link whose code has no record
Creates(code) ==
    /\ phase = "PROCESSING"
    /\ todo # <<>>
    /\ extract_code(Head(todo).link.url) = code
    /\ RowsOf(db, code) = {}
    /\ todo' = Tail(todo)
    /\ result'.errors = result.errors

\* C10: processing a link whose code has no record leaves exactly one record for
\* the code, with amendment_count 0, has_amendments false, update_count 0,
\* is_active true and last_checked_at the processing time.
C10_NewRecord ==
    [][\A code \in Codes :
          Creates(code) =>
              /\ Cardinality(RowsOf(db', code)) = 1
              /\ LET opp == db'[RowOf(db', code)]
                 IN  /\ opp.amendment_count = 0
                     /\ ~opp.has_amendments
                     /\ opp.update_count = 0
                     /\ opp.is_active
                     /\ opp.last_checked_at = now
                     /\ opp.url = Head(todo).link.url]_vars

\* a record just created while the run is still processing
C10_Witness ==
    /\ phase = "PROCESSING"
    /\ todo # <<>>
    /\ \E code \in Range(result.new) :
          /\ RowsOf(pre, code) = {}
          /\ Cardinality(RowsOf(db, code)) = 1
          /\ db[RowOf(db, code)].last_checked_at = now

\* this step applies an amendment: the head of the queue is saved over its record
\* and reported in the result's amendments
AppliesAmendment ==
    /\ phase = "PROCESSING"
    /\ todo # <<>>
    /\ Len(result'.amendments) = Len(result.amendments) + 1

\* C11: a step that applies an amendment leaves the record with the url of the
\* discovered link in place of the old one, the same opportunity_code, and 'url'
\* among its last_changed_fields.
C11_UrlOverwritten ==
    [][AppliesAmendment =>
          LET link == Head(todo).link
              row == RowOf(db, extract_code(link.url))
          IN  /\ db[row].url # link.url
              /\ db'[row].url = link.url
              /\ db'[row].opportunity_code = db[row].opportunity_code
              /\ "url" \in Range(db'[row].last_changed_fields)]_vars

\* an incremental run has amended a record whose closing date changed as well: the
\* record carries the amendment url and both changed fields
C11_Witness ==
    /\ Reconciled
    /\ \E k \in DOMAIN recon.amendments :
          LET pair == recon.amendments[k]
              opp == db[RowOf(db, pair.opp.opportunity_code)]
          IN  /\ pair.opp.opportunity_code \in Range(result.amendments)
              /\ opp.url = pair.link.url
              /\ opp.url # pair.opp.url
              /\ opp.last_changed_fields = <<"bid_closing_date_parsed", "url">>

\* the queue the run set out to process
RunQueue == IF mode = "incremental" THEN ProcessQueue(recon) ELSE Items("full", links)

\* the number of items the run has dealt with, processed or failed
Handled ==
    Len(result.new) + Len(result.amendments) + result.updated + result.unchanged
        + Len(result.errors)

C13_FatalStopsRun ==
    /\ result.error # "none" <=> phase = "FAILED"
    /\ phase = "FAILED" =>
          /\ db = pre
          /\ sweep = NoSweep
          /\ todo = <<>>
          /\ result = [NoResult EXCEPT !.error = result.error]

\* the table read of a run failed while the table held an active record of the
\* scope past its closing date, and the listing held a link not in the table
C13_Witness ==
    /\ phase = "FAILED"
    /\ result.error = "storage read"
    /\ \E k \in DOMAIN links : RowsOf(db, extract_code(links[k].url)) = {}
    /\ \E i \in DOMAIN db :
          /\ InScope(db[i])
          /\ db[i].is_active
          /\ db[i].bid_closing_date_parsed # NULL
          /\ db[i].bid_closing_date_parsed < now

\* C14: no two job processes are inside a pass for the same (source, category)
\* scope at the same time.
C14_OnePassPerScope ==
    \A j1, j2 \in Jobs :
        (j1 # j2 /\ Running(j1) /\ Running(j2)) => Scope(j1) # Scope(j2)

\* C15: a run_job.py process that has exited has exit code 0 exactly when
\* run_job_sync was called and returned results reporting success; with an
\* argument other than incremental or full it has exited non-zero and
\* run_job_sync was not called.
C15_ExitCode ==
    \A j \in Jobs :
        job[j].kind = "run_job.py" =>
            /\ job[j].pc \in {"running", "exited"}
            /\ job[j].called <=> job[j].argv \in Modes \cup {""}
            /\ job[j].pc = "exited" =>
                  /\ job[j].EXIT_CODE \in {0, 1}
                  /\ job[j].EXIT_CODE = 0 <=> (job[j].called /\ job[j].success)

\* one job has exited after results without success, another on an invalid mode
C15_Witness ==
    \E j1, j2 \in Jobs :
        /\ job[j1].kind = "run_job.py" /\ job[j1].pc = "exited"
        /\ job[j1].called /\ ~job[j1].success /\ job[j1].EXIT_CODE = 1
        /\ job[j2].kind = "run_job.py" /\ job[j2].pc = "exited"
        /\ job[j2].argv = "fulll" /\ ~job[j2].called /\ job[j2].EXIT_CODE = 1

\* C16: the table never holds two records with one opportunity_code.
C16_OneRecordPerCode ==
    \A i, j \in DOMAIN db :
        db[i].opportunity_code = db[j].opportunity_code => i = j

\* the second run has finished on a listing that repeats a code under two urls,
\* with an item failure, and the code's one record was amended
C16_Witness ==
    /\ phase = "DONE"
    /\ runs = MaxRuns
    /\ result.errors # <<>>
    /\ \E k1, k2 \in DOMAIN links :
          /\ k1 < k2
          /\ links[k1].url # links[k2].url
          /\ extract_code(links[k1].url) = extract_code(links[k2].url)
          /\ \E i \in DOMAIN pre :
                /\ pre[i].opportunity_code = extract_code(links[k1].url)
                /\ db[i].amendment_count > pre[i].amendment_count
                /\ RowsOf(db, pre[i].opportunity_code) = {i}

\* the steps of a run's state machine
RunSteps ==
    {<<"DISCOVERING", "RECONCILING">>, <<"RECONCILING", "PROCESSING">>,
     <<"PROCESSING", "RETIRING">>, <<"RETIRING", "DONE">>}
        \cup ({"DISCOVERING", "RECONCILING", "PROCESSING", "RETIRING"} \X {"FAILED"})

\* C17: within a run the state moves only one step forward along DISCOVERING,
\* RECONCILING, PROCESSING, RETIRING, DONE, or from a state before DONE to FAILED;
\* DONE and FAILED are left only by the start of the next run, in DISCOVERING.
C17_PhaseOrder ==
    [][phase' # phase =>
          IF runs' = runs
          THEN <<phase, phase'>> \in RunSteps
          ELSE /\ phase \in {"IDLE", "DONE", "FAILED"}
               /\ phase' = "DISCOVERING"
               /\ runs' = runs + 1]_vars

\* a run went through every state to DONE after the run before it had failed
C17_Witness ==
    /\ phase = "DONE"
    /\ prev.outcome = "failed"
    /\ sweep.now # NULL
    /\ Handled > 0

\* C18: the sweep has run exactly when the run is DONE, and it ran with every item
\* of the queue processed or failed; so a record this run amended to a parsed
\* closing date later than the sweep's time is active after the run, whatever
\* its closing date was before.
C18_SweepOnceAtEnd ==
    /\ sweep.now # NULL <=> phase = "DONE"
    /\ phase \in {"RETIRING", "DONE"} => (todo = <<>> /\ Handled = Len(RunQueue))
    /\ phase = "DONE" =>
          \A i \in DOMAIN pre :
              (/\ pre[i].is_active
               /\ pre[i].opportunity_code \in Range(result.amendments)
               /\ db[i].bid_closing_date_parsed # NULL
               /\ db[i].bid_closing_date_parsed > sweep.now) => db[i].is_active

\* a finished run amended an active record whose closing date was past to a
\* closing date after the sweep's time, and the record is active
C18_Witness ==
    /\ phase = "DONE"
    /\ \E i \in DOMAIN pre :
          /\ pre[i].is_active
          /\ pre[i].bid_closing_date_parsed # NULL
          /\ pre[i].bid_closing_date_parsed < sweep.now
          /\ pre[i].opportunity_code \in Range(result.amendments)
          /\ db[i].bid_closing_date_parsed > sweep.now
          /\ db[i].is_active

\* the record of the scope with the code, as the run found it
FoundRecord(code) ==
    pre[CHOOSE i \in DOMAIN pre : InScope(pre[i]) /\ pre[i].opportunity_code = code]

\* the code of the scope has a record in the table the run found
Found(code) == \E i \in DOMAIN pre : InScope(pre[i]) /\ pre[i].opportunity_code = code

\* C19: in a reconciled listing every code, repeated or not, is classified by its
\* last link alone: new with that link when the code has no record, amendment with
\* that link when its URL ending differs from the record's, unchanged otherwise;
\* no other link of the code is in the classification.
C19_LastLinkWins ==
    Reconciled =>
        \A code \in LinkCodes(links) :
            LET last == LastLink(links, code)
                IsLast(link) == CodeOfLink(link) = code => link = last
                InNew == \E k \in DOMAIN recon.new : recon.new[k] = last
            IN  /\ \A k \in DOMAIN recon.new : IsLast(recon.new[k])
                /\ \A k \in DOMAIN recon.amendments : IsLast(recon.amendments[k].link)
                /\ IF ~Found(code)
                   THEN InNew
                   ELSE LET opp == FoundRecord(code)
                            changed == extract_url_ending(last.url)
                                          # extract_url_ending(opp.url)
                        IN  /\ ~InNew
                            /\ (\E k \in DOMAIN recon.amendments :
                                    recon.amendments[k] = [link |-> last, opp |-> opp])
                                  <=> changed
                            /\ (\E k \in DOMAIN recon.unchanged :
                                    recon.unchanged[k] = opp) <=> ~changed

\* a listing repeats the code of a record, first under the record's url and last
\* under another ending: the code is an amendment, with the last link
C19_Witness ==
    /\ Reconciled
    /\ Len(links) = 2
    /\ extract_code(links[1].url) = extract_code(links[2].url)
    /\ Found(extract_code(links[1].url))
    /\ links[1].url = FoundRecord(extract_code(links[1].url)).url
    /\ Len(recon.amendments) = 1
    /\ recon.amendments[1].link = links[2]
    /\ recon.unchanged = <<>>

\* C20: a link whose code cannot be extracted is skipped: no record carries the
\* missing code, the link is in none of new / amendment / unchanged, and it does
\* not stop the run: a run fails on discovery or on the table read only.
C20_UnparseableSkipped ==
    /\ \A i \in DOMAIN db : db[i].opportunity_code # NoCode
    /\ \A k \in DOMAIN recon.new : recon.new[k].url # BadUrl
    /\ \A k \in DOMAIN recon.amendments : recon.amendments[k].link.url # BadUrl
    /\ phase = "FAILED" => result.error \in {"discovery", "storage read"}

\* the codes of the records a run created, and of those whose amendment_count it raised
CreatedCodes == {db[i].opportunity_code : i \in DOMAIN db \ DOMAIN pre}

AmendedCodes ==
    {db[i].opportunity_code : i \in
        {i \in DOMAIN db :
            db[i].amendment_count > (IF i \in DOMAIN pre THEN pre[i].amendment_count ELSE 0)}}

\* C21: a full run that finished without item failure fetched every discovered
\* link, created records for exactly the codes an incremental reconciliation of
\* the same listing and table classifies as new, and raised amendment_count for
\* exactly the codes it classifies as amendment.
C21_FullMatchesIncremental ==
    (/\ mode = "full"
     /\ phase = "DONE"
     /\ result.errors = <<>>
     /\ NoCode \notin LinkCodes(links)) =>
        LET r == _reconcile_opportunities(links, pre)
        IN  /\ fetched = {links[k].url : k \in DOMAIN links}
            /\ CreatedCodes = {CodeOfLink(r.new[k]) : k \in DOMAIN r.new}
            /\ AmendedCodes = {CodeOfPair(r.amendments[k]) : k \in DOMAIN r.amendments}

\* C22: up to the sweep every record has the is_active the run found it with,
\* whether amended, refreshed or untouched; after the sweep the only records whose
\* is_active differs are those the sweep found past due.
C22_OnlySweeperWritesActive ==
    /\ phase # "DONE" =>
          \A i \in DOMAIN pre : db[i].is_active = pre[i].is_active
    /\ phase = "DONE" =>
          \A i \in DOMAIN pre :
              db[i].is_active # pre[i].is_active => (i \in sweep.past_due /\ pre[i].is_active)

\* a record retired in an earlier run was amended by this run to a closing date
\* after the sweep's time, another was refreshed, and both are still inactive
C22_Witness ==
    /\ phase = "DONE"
    /\ mode = "incremental"
    /\ result.unchanged > 0
    /\ \E i \in DOMAIN pre :
          /\ ~pre[i].is_active
          /\ pre[i].opportunity_code \in Range(result.amendments)
          /\ db[i].bid_closing_date_parsed > sweep.now
          /\ ~db[i].is_active
    /\ \E i \in DOMAIN pre :
          /\ InScope(pre[i])
          /\ ~pre[i].is_active
          /\ pre[i] \in Range(recon.unchanged)
          /\ ~db[i].is_active

\* the tracked fields of a record
TrackedFields == {"url", "bid_closing_date_parsed"}

C24_FlagIsCount ==
    /\ \A i \in DOMAIN db :
          /\ db[i].amendment_count >= 0
          /\ db[i].has_amendments <=> db[i].amendment_count > 0
    /\ \A i \in DOMAIN pre : db[i].amendment_count >= pre[i].amendment_count

\* a record amended in an earlier run was amended again, next to a record never
\* amended
C24_Witness ==
    /\ \E i \in DOMAIN pre :
          /\ pre[i].amendment_count > 0
          /\ db[i].amendment_count > pre[i].amendment_count
          /\ db[i].has_amendments
    /\ \E i \in DOMAIN db :
          InScope(db[i]) /\ db[i].amendment_count = 0 /\ ~db[i].has_amendments

\* the run was cancelled in PROCESSING
Cancelled == phase = "FAILED" /\ result.error = "cancelled"

\* the codes of the items the run dealt with before it stopped
HandledCodes ==
    {extract_code(RunQueue[k].link.url) : k \in 1..(Len(RunQueue) - Len(todo))}

\* C25: after a cancellation in PROCESSING the table holds what was committed
\* before it: a record for every link reported new, the raised amendment_count of
\* every code reported amended; a record whose code no handled item carries is as
\* the run found it, no record exists for an unhandled link without one, and no
\* record has a new url without the amendment fields of that change.
C25_CancelKeepsCommitted ==
    Cancelled =>
        /\ Len(db) = Len(pre) + Len(result.new)
        /\ \A code \in Range(result.new) : RowsOf(db, code) # {} /\ RowsOf(pre, code) = {}
        /\ \A i \in DOMAIN pre :
              LET code == pre[i].opportunity_code
              IN  /\ code \in Range(result.amendments) =>
                        db[i].amendment_count > pre[i].amendment_count
                  /\ code \notin HandledCodes => db[i] = pre[i]
                  /\ db[i].url # pre[i].url =>
                        /\ db[i].amendment_count > pre[i].amendment_count
                        /\ db[i].has_amendments
                        /\ db[i].last_amendment_at # NULL

\* a run cancelled after it had applied an amendment and before it reached the
\* record of the next item
C25_Witness ==
    /\ Cancelled
    /\ Len(result.amendments) = 1
    /\ todo # <<>>
    /\ \E i \in DOMAIN pre :
          /\ pre[i].opportunity_code = extract_code(Head(todo).link.url)
          /\ pre[i].opportunity_code \notin HandledCodes
          /\ db[i] = pre[i]

\* the run is in one of its working states
InProgress == phase \in {"DISCOVERING", "RECONCILING", "PROCESSING", "RETIRING"}

\* C26: a run in progress eventually reaches DONE or FAILED.
C26_RunTerminates == InProgress ~> (phase \in {"DONE", "FAILED"})

\* the run went through an item failure and a refresh of the seeded record to DONE
C26_Witness ==
    /\ phase = "DONE"
    /\ runs = 1
    /\ Len(result.errors) = 1
    /\ result.unchanged = 1
    /\ db[2] = [SeededRecord EXCEPT !.last_checked_at = db[2].last_checked_at]

\* the request issued last
LatestRequest(h) == CHOOSE request \in h.requests : request.id = h.issued

\* C27: on the opportunities page every step that changes the filters, the quick
\* filters or the sort order leaves the current page at 1, and the request that
\* step issues last asks for page 1
C27_ChangeResetsPage ==
    [][(\/ home'.filters # home.filters
        \/ home'.quickFilters # home.quickFilters
        \/ home'.sortBy # home.sortBy)
       => /\ home'.page = 1
          /\ home'.issued > home.issued
          /\ <<"page", "1">> \in LatestRequest(home').query]_vars

\* page 2 was shown, then a type was toggled: the page is 1 again
C27_Witness ==
    /\ home.page = 1
    /\ <<"page", "2">> \in home.opportunities
    /\ home.filters.opportunity_type # {}
    /\ <<"opportunity_type", "IFIB">> \notin home.opportunities
    /\ <<"opportunity_type", "RFP">> \notin home.opportunities

\* every list request has been answered, the latest one with a list
Settled == home.requests = {} /\ home.last = "ok"

\* C28: on the opportunities page, once every outstanding list request is
\* answered, the opportunities and the total displayed are those of the request
\* issued last, the one for the current filters, sort order and page
C28_LatestRequestShown ==
    Settled =>
        /\ home.opportunities = Answer(getOpportunities(Params(home))).opportunities
        /\ home.total = Answer(getOpportunities(Params(home))).total

\* the step in which the debounce timer set by a keystroke fires with a search
\* text still to be applied: only the timer's own step leaves no timer
DebounceFires ==
    /\ \E timer \in home.timer : timer.searchValue # home.filters.search
    /\ home'.timer = {}

\* C29: in the filter bar the delayed search update changes the search text only;
\* opportunity_type and nato_body are after the timer fires what they were just
\* before, so a type toggled while the timer was pending stays in effect
C29_DebounceKeepsToggles ==
    [][DebounceFires =>
          /\ home'.filters.opportunity_type = home.filters.opportunity_type
          /\ home'.filters.nato_body = home.filters.nato_body]_vars

\* C30: in the feedback form, while a createFeedback request is in flight the
\* status is loading, the submit button is disabled and no second request is out
C30_OneSubmissionInFlight ==
    form.outstanding > 0 =>
        /\ form.status = "loading"
        /\ SubmitDisabled
        /\ form.outstanding = 1

====
